---- MODULE Spec2Model ----
(***************************************************************************)
(* Model of odoorpc.rpc: the Connector, ConnectorJSONRPC and               *)
(* ConnectorJSONRPCSSL classes (src/odoorpc/rpc/__init__.py).              *)
(*                                                                         *)
(* A caller builds one connector, of either class, from its input against *)
(* a server.  Construction, the timeout setter, calls through the two      *)
(* proxies and a later call of _get_proxies are the actions.               *)
(* odoorpc.rpc.jsonrpclib (ProxyJSON, ProxyHTTP) is not part of the source *)
(* at hand; the proxies are modelled from the specification.               *)
(***************************************************************************)
EXTENDS Integers, Sequences, FiniteSets, TLC

VARIABLES input, server, cls, status, exc, obj, reqs, jars, built, openers,
          rebuilt, assigned

vars == <<input, server, cls, status, exc, obj, reqs, jars, built, openers,
          rebuilt, assigned>>

----------------------------------------------------------------------------
(* Bounds *)

\* longest request log of the connector (construction included)
MaxRequests == 2

----------------------------------------------------------------------------
(* Python values *)

Classes == {"ConnectorJSONRPC", "ConnectorJSONRPCSSL"}

\* Python's None, where a string is expected
NoneV == "None"

PInt(n)   == [type |-> "int",   val |-> n, text |-> <<>>]
\* a bool: True is 1, False is 0
PBool(b)  == [type |-> "bool",  val |-> IF b THEN 1 ELSE 0, text |-> <<>>]
\* a finite float, val in tenths (805 is 80.5)
PFloat(n) == [type |-> "float", val |-> n, text |-> <<>>]
\* float('nan') and float('inf')
PNaN      == [type |-> "nan",   val |-> 0, text |-> <<>>]
PInf      == [type |-> "inf",   val |-> 0, text |-> <<>>]
\* a str, text the sequence of its code points ("80" is <<56, 48>>)
PStr(s)   == [type |-> "str",   val |-> 0, text |-> s]
PNone     == [type |-> "NoneType", val |-> 0, text |-> <<>>]
PList     == [type |-> "list",  val |-> 0, text |-> <<>>]

\* code points of "+", "-" and "_"
Plus == 43
Minus == 45
Underscore == 95

\* the code points int() strips from both ends of a str
Whitespace ==
    (9..13) \cup {32, 133, 160, 5760} \cup (8192..8202)
        \cup {8232, 8233, 8239, 8287, 12288}

\* the code point of digit zero of every Unicode decimal-digit block (ASCII
\* "0" is 48); the nine code points after it are the digits 1 to 9
DigitZeros ==
    {48, 1632, 1776, 1984, 2406, 2534, 2662, 2790, 2918, 3046, 3174, 3302,
     3430, 3558, 3664, 3792, 3872, 4160, 4240, 6112, 6160, 6470, 6608,
     6784, 6800, 6992, 7088, 7232, 7248, 42528, 43216, 43264, 43472, 43504,
     43600, 44016, 65296, 66720, 68912, 69734, 69872, 69942, 70096, 70384,
     70736, 70864, 71248, 71360, 71472, 71904, 72016, 72784, 73040, 73120,
     92768, 92864, 93008, 120782, 120792, 120802, 120812, 120822, 123200,
     123632, 125264, 130032}

\* the code points int() reads as a decimal digit
Digits == UNION {z..(z + 9) : z \in DigitZeros}

DigitVal(c) == c - (CHOOSE z \in DigitZeros : z <= c /\ c <= z + 9)

RECURSIVE LStrip(_)
LStrip(s) == IF s # <<>> /\ Head(s) \in Whitespace THEN LStrip(Tail(s)) ELSE s

RECURSIVE RStrip(_)
RStrip(s) ==
    IF s # <<>> /\ s[Len(s)] \in Whitespace
    THEN RStrip(SubSeq(s, 1, Len(s) - 1)) ELSE s

\* digits, with single underscores allowed between two digits
WellFormedDigits(s) ==
    /\ s # <<>>
    /\ \A i \in 1..Len(s) : s[i] \in Digits \/ s[i] = Underscore
    /\ s[1] \in Digits /\ s[Len(s)] \in Digits
    /\ \A i \in 1..(Len(s) - 1) : ~(s[i] = Underscore /\ s[i + 1] = Underscore)

\* the longest digit string int() converts (sys.int_info
\* default_max_str_digits); the sign, the stripped whitespace and the
\* underscores do not count
MaxStrDigits == 4300

\* the number of digits of well-formed digits
NumDigits(s) == Cardinality({i \in 1..Len(s) : s[i] # Underscore})

\* the value of well-formed digits, underscores skipped
RECURSIVE DigitsValue(_)
DigitsValue(s) ==
    IF s = <<>> THEN 0
    ELSE IF s[Len(s)] = Underscore THEN DigitsValue(SubSeq(s, 1, Len(s) - 1))
    ELSE 10 * DigitsValue(SubSeq(s, 1, Len(s) - 1)) + DigitVal(s[Len(s)])

\* int(x) of Python: the value, or the exception it raises
PyInt(x) ==
    CASE x.type \in {"int", "bool"} -> [exc |-> "none", val |-> x.val]
      [] x.type = "float" ->
            [exc |-> "none",
             val |-> IF x.val >= 0 THEN x.val \div 10 ELSE -((-x.val) \div 10)]
      [] x.type = "nan"   -> [exc |-> "ValueError", val |-> 0]
      [] x.type = "inf"   -> [exc |-> "OverflowError", val |-> 0]
      [] x.type = "str"   ->
            LET t    == RStrip(LStrip(x.text))
                neg  == t # <<>> /\ Head(t) = Minus
                body == IF t # <<>> /\ Head(t) \in {Plus, Minus} THEN Tail(t) ELSE t
            IN  IF ~WellFormedDigits(body)
                THEN [exc |-> "ValueError", val |-> 0]
                ELSE IF NumDigits(body) > MaxStrDigits
                THEN [exc |-> "ValueError", val |-> 0]
                ELSE [exc |-> "none",
                      val |-> IF neg THEN -DigitsValue(body) ELSE DigitsValue(body)]
      [] OTHER -> [exc |-> "TypeError", val |-> 0]

----------------------------------------------------------------------------
(* Inputs *)

Hosts == {"localhost"}

\* 8069, -1, 80.5, float('nan'), float('inf'), "80", "-1", "\t1_0\n",
\* "\u0663" (ARABIC-INDIC DIGIT THREE), "ab", "1__0", None, []
Ports == { PInt(8069), PInt(-1), PFloat(805), PNaN, PInf,
           PStr(<<56, 48>>), PStr(<<45, 49>>), PStr(<<9, 49, 95, 48, 10>>),
           PStr(<<1635>>), PStr(<<97, 98>>), PStr(<<49, 95, 95, 48>>),
           PNone, PList }

CtorTimeouts == {120, 30}
Timeouts == {30, 60}
Versions == {NoneV, "7.0"}

Inputs == [host : Hosts, port : Ports, timeout : CtorTimeouts,
           version : Versions, deserialize : BOOLEAN]

VersionInfoPath == "/web/webclient/version_info"
AuthPath == "/web/session/authenticate"
ImagePath == "/web/binary/image"

ServerVersion == "8.0"

\* what the server answers to a request
ReplyKinds == {"result_sv", "result_nosv", "error", "neither", "malformed",
               "conn_fail"}

\* what the server answers to a call made after construction
CallReplies == {"result_nosv", "error", "conn_fail"}

\* the cookie a response sets: none, "sid1" by the version-info endpoint,
\* "sid2" by the endpoints called after construction
NoCookie == "none"

Servers == [version_info : ReplyKinds, cookie : {NoCookie, "sid1"}]

----------------------------------------------------------------------------
(* Proxies (odoorpc.rpc.jsonrpclib) *)

NoProxyJSON == [kind |-> "none", host |-> "", port |-> 0, _timeout |-> 0,
                ssl |-> FALSE, deserialize |-> FALSE, opener |-> 0]
NoProxyHTTP == [kind |-> "none", host |-> "", port |-> 0, _timeout |-> 0,
                ssl |-> FALSE, opener |-> 0]

\* jsonrpclib.ProxyJSON(host, port, timeout, ssl, deserialize, opener)
ProxyJSON(host, port, timeout, ssl, deserialize, opener) ==
    [kind |-> "json", host |-> host, port |-> port, _timeout |-> timeout,
     ssl |-> ssl, deserialize |-> deserialize, opener |-> opener]

\* jsonrpclib.ProxyHTTP(host, port, timeout, ssl, opener)
ProxyHTTP(host, port, timeout, ssl, opener) ==
    [kind |-> "http", host |-> host, port |-> port, _timeout |-> timeout,
     ssl |-> ssl, opener |-> opener]

\* the scheme of the URLs a proxy requests
Scheme(proxy) == IF proxy.ssl THEN "https" ELSE "http"

\* a JSON value: a mapping, or its undecoded text
PyDict(has_sv) == [type |-> "dict", has_sv |-> has_sv]
PyText(has_sv) == [type |-> "str",  has_sv |-> has_sv]
NoValue == [type |-> "NoneType", has_sv |-> FALSE]

\* json.dumps of a mapping: the key "server_version" occurs in the text
\* exactly when the mapping has it
JsonText(d) == PyText(d.has_sv)

\* What a call of the JSON proxy gives the caller for a server reply:
\* the exception raised, or the envelope's result
ProxyJSONCall(proxy, reply) ==
    CASE reply = "conn_fail" -> [exc |-> "ConnectionError", result |-> NoValue]
      [] reply = "malformed" -> [exc |-> "ProtocolError",   result |-> NoValue]
      [] reply = "neither"   -> [exc |-> "ProtocolError",   result |-> NoValue]
      [] reply = "error"     -> [exc |-> "RPCError",        result |-> NoValue]
      [] OTHER ->
            LET d == PyDict(reply = "result_sv")
            IN  [exc |-> "none",
                 result |-> IF proxy.deserialize THEN d ELSE JsonText(d)]

\* One HTTP round trip through a proxy's opener: the request is sent with
\* the cookies of the opener's jar, and a received response stores its
\* cookie in that jar.
Send(f, proxy, path, reply, cookie) ==
    LET req == [via |-> proxy.kind, scheme |-> Scheme(proxy), path |-> path,
                timeout |-> proxy._timeout, opener |-> proxy.opener,
                cookies |-> f.jars[proxy.opener],
                set |-> IF reply = "conn_fail" THEN NoCookie ELSE cookie]
    IN  [f EXCEPT !.reqs = Append(@, req),
                  !.jars[proxy.opener] =
                      IF req.set = NoCookie THEN @ ELSE @ \cup {req.set}]

----------------------------------------------------------------------------
(* Connectors *)

\* an object before __init__ has run
Blank(k) ==
    [cls |-> k, host |-> "", port |-> 0, _timeout |-> 0, version |-> NoneV,
     deserialize |-> TRUE, _opener |-> 0,
     _proxy_json |-> NoProxyJSON, _proxy_http |-> NoProxyHTTP]

\* the interpreter's state while a method runs: the object, the exception
\* raised if any, the requests sent, the cookie jars of all openers, the
\* proxies and the openers built
Frame(k, js) ==
    [self |-> Blank(k), exc |-> "none", reqs |-> <<>>, jars |-> js,
     built |-> {}, openers |-> <<>>]

Raise(f, e) == [f EXCEPT !.exc = e]

\* ConnectorJSONRPCSSL without its override of the ssl property
ssl_base(self) == FALSE

\* Connector.ssl / ConnectorJSONRPCSSL.ssl
ssl(self) == self.cls = "ConnectorJSONRPCSSL"

\* Connector.__init__
Connector__init__(f, host, port, timeout, version) ==
    LET f1 == [f EXCEPT !.self.host = host]
        p  == PyInt(port)
    IN  CASE p.exc = "ValueError" -> Raise(f1, "ConnectorError")
          \* any other exception of int() is not caught
          [] p.exc # "none"       -> Raise(f1, p.exc)
          [] OTHER ->
                [f1 EXCEPT !.self.port = p.val,
                           !.self._timeout = timeout,
                           !.self.version = version]

\* ConnectorJSONRPC._get_proxies, "Detect the server version": the frame
\* after it, and the pair returned
DetectVersion(f, proxy_json, proxy_http, srv) ==
    LET ret(g) == [f |-> g, proxy_json |-> proxy_json, proxy_http |-> proxy_http]
    IN  IF f.self.version # NoneV THEN ret(f)
        ELSE
            LET f2 == Send(f, proxy_json, VersionInfoPath,
                           srv.version_info, srv.cookie)
                r  == ProxyJSONCall(proxy_json, srv.version_info)
            IN  \* proxy_json.web.webclient.version_info()['result']
                IF r.exc # "none" THEN ret(Raise(f2, r.exc))
                \* 'server_version' in result: a key of a mapping, a
                \* substring of a text
                ELSE IF ~r.result.has_sv THEN ret(f2)
                \* result['server_version']: a text takes no string index
                ELSE IF r.result.type # "dict" THEN ret(Raise(f2, "TypeError"))
                ELSE ret([f2 EXCEPT !.self.version = ServerVersion])

\* _get_proxies without opener=self._opener for the HTTP proxy, which then
\* builds an opener of its own
_get_proxies_own_opener(f, srv) ==
    LET self == f.self
        id == Len(f.jars) + 1
        proxy_json == ProxyJSON(self.host, self.port, self._timeout,
                                ssl(self), self.deserialize, self._opener)
        proxy_http == ProxyHTTP(self.host, self.port, self._timeout,
                                ssl(self), id)
    IN  DetectVersion([f EXCEPT !.built = @ \cup {proxy_json, proxy_http},
                                !.jars = Append(@, {}),
                                !.openers = Append(@, id)],
                      proxy_json, proxy_http, srv)

\* ConnectorJSONRPC._get_proxies
_get_proxies(f, srv) ==
    LET self == f.self
        proxy_json == ProxyJSON(self.host, self.port, self._timeout,
                                ssl(self), self.deserialize, self._opener)
        proxy_http == ProxyHTTP(self.host, self.port, self._timeout,
                                ssl(self), self._opener)
    IN  DetectVersion([f EXCEPT !.built = @ \cup {proxy_json, proxy_http}],
                      proxy_json, proxy_http, srv)

\* self._proxy_json, self._proxy_http = self._get_proxies(): the
\* assignment of the pair _get_proxies returned, unless it raised
AssignProxies(g) ==
    IF g.f.exc # "none" THEN g.f
    ELSE [g.f EXCEPT !.self._proxy_json = g.proxy_json,
                     !.self._proxy_http = g.proxy_http]

\* ConnectorJSONRPC.__init__ after the inherited constructor: deserialize,
\* the cookie jar and its opener
BuildOpener(f, deserialize) ==
    [f EXCEPT !.self.deserialize = deserialize,
              !.jars = Append(@, {}),
              !.openers = Append(@, Len(f.jars) + 1),
              !.self._opener = Len(f.jars) + 1]

\* ConnectorJSONRPC.__init__ after super().__init__ (not run when that
\* raised)
ConnectorJSONRPC__init__rest(f, deserialize, srv) ==
    IF f.exc # "none" THEN f
    ELSE AssignProxies(_get_proxies(BuildOpener(f, deserialize), srv))

\* ConnectorJSONRPC.__init__
ConnectorJSONRPC__init__(f, host, port, timeout, version, deserialize, srv) ==
    ConnectorJSONRPC__init__rest(
        Connector__init__(f, host, port, timeout, version), deserialize, srv)

\* ConnectorJSONRPCSSL.__init__ after super().__init__ (not run when that
\* raised)
ConnectorJSONRPCSSL__init__rest(f, srv) ==
    IF f.exc # "none" THEN f ELSE AssignProxies(_get_proxies(f, srv))

\* ConnectorJSONRPCSSL.__init__: deserialize is not passed on, the inherited
\* constructor takes its default
ConnectorJSONRPCSSL__init__(f, host, port, timeout, version, deserialize, srv) ==
    ConnectorJSONRPCSSL__init__rest(
        ConnectorJSONRPC__init__(f, host, port, timeout, version, TRUE, srv), srv)

\* PROTOCOLS[...](host, port, timeout, version, deserialize)
Construct(k, in, srv, js) ==
    IF k = "ConnectorJSONRPCSSL"
    THEN ConnectorJSONRPCSSL__init__(Frame(k, js), in.host, in.port,
                                     in.timeout, in.version, in.deserialize, srv)
    ELSE ConnectorJSONRPC__init__(Frame(k, js), in.host, in.port,
                                  in.timeout, in.version, in.deserialize, srv)

\* ConnectorJSONRPC.timeout (getter)
timeout(self) == self._proxy_json._timeout

\* the setter without its second assignment
set_timeout_json_only(self, t) == [self EXCEPT !._proxy_json._timeout = t]

\* ConnectorJSONRPC.timeout (setter)
set_timeout(self, t) ==
    [self EXCEPT !._proxy_json._timeout = t, !._proxy_http._timeout = t]

----------------------------------------------------------------------------
(* The state machine *)

Init ==
    /\ input \in Inputs
    /\ server \in Servers
    /\ cls = "none"
    /\ status = "new"
    /\ exc = "none"
    /\ obj = Blank("none")
    /\ reqs = <<>>
    /\ jars = <<>>
    /\ built = {}
    /\ openers = <<>>
    /\ rebuilt = <<>>
    /\ assigned = 0

\* cnt = PROTOCOLS[...](**input)
New(c) ==
    /\ status = "new"
    /\ LET f == Construct(c, input, server, jars)
       IN  /\ cls' = c
           /\ status' = IF f.exc = "none" THEN "ok" ELSE "failed"
           /\ exc' = f.exc
           /\ obj' = IF f.exc = "none" THEN f.self ELSE Blank(c)
           /\ reqs' = f.reqs
           /\ jars' = f.jars
           /\ built' = f.built
           /\ openers' = f.openers
           \* the caller's record of the timeout it last gave the connector
           /\ assigned' = IF f.exc = "none" THEN input.timeout ELSE assigned
    /\ UNCHANGED <<input, server, rebuilt>>

\* cnt.timeout = t
SetTimeout(t) ==
    /\ status = "ok"
    /\ obj' = set_timeout(obj, t)
    /\ assigned' = t
    /\ UNCHANGED <<input, server, cls, status, exc, reqs, jars, built, openers,
                   rebuilt>>

\* the frame of a method called on the constructed connector
Running ==
    [self |-> obj, exc |-> "none", reqs |-> reqs, jars |-> jars,
     built |-> built, openers |-> openers]

\* cnt.proxy_json.web.session.authenticate(...)
CallJSON(reply, cookie) ==
    /\ status = "ok"
    /\ Len(reqs) < MaxRequests
    /\ LET f == Send(Running, obj._proxy_json, AuthPath, reply, cookie)
       IN  /\ reqs' = f.reqs
           /\ jars' = f.jars
    /\ UNCHANGED <<input, server, cls, status, exc, obj, built, openers, rebuilt,
                   assigned>>

\* cnt.proxy_http.web.binary.image(...)
CallHTTP(reply, cookie) ==
    /\ status = "ok"
    /\ Len(reqs) < MaxRequests
    /\ LET f == Send(Running, obj._proxy_http, ImagePath, reply, cookie)
       IN  /\ reqs' = f.reqs
           /\ jars' = f.jars
    /\ UNCHANGED <<input, server, cls, status, exc, obj, built, openers, rebuilt,
                   assigned>>

\* cnt._get_proxies() on the constructed connector
GetProxies ==
    /\ status = "ok"
    /\ Len(reqs) < MaxRequests
    /\ LET g == _get_proxies(Running, server)
       IN  /\ obj' = g.f.self
           /\ reqs' = g.f.reqs
           /\ jars' = g.f.jars
           /\ built' = g.f.built
           /\ rebuilt' = IF g.f.exc = "none"
                         THEN <<g.proxy_json, g.proxy_http>> ELSE rebuilt
    /\ UNCHANGED <<input, server, cls, status, exc, openers, assigned>>

Next ==
    \/ \E c \in Classes : New(c)
    \/ \E t \in Timeouts : SetTimeout(t)
    \/ \E r \in CallReplies, k \in {NoCookie, "sid2"} : CallJSON(r, k)
    \/ \E r \in CallReplies, k \in {NoCookie, "sid2"} : CallHTTP(r, k)
    \/ GetProxies

Spec == Init /\ [][Next]_vars

----------------------------------------------------------------------------
(* Properties *)

\* the step that constructs the connector
Constructing == status = "new" /\ status' # "new"

\* the requests of a log sent to the version-info endpoint
VersionCalls(log) == {i \in 1..Len(log) : log[i].path = VersionInfoPath}

\* the error kinds of the connector layer
TypedErrors == {"ConnectorError", "ConnectionError", "ProtocolError", "RPCError"}

\* the cookies the responses to the first n requests of a log have set
CookiesSet(log, n) == {log[j].set : j \in 1..n} \ {NoCookie}

\* C1: constructing a connector of either class from a valid port issues
\* exactly one call to the version-info endpoint when no version is given,
\* whatever the server replies, and none when a version is given.
C1_OneVersionCall ==
    [][(Constructing /\ PyInt(input.port).exc = "none") =>
          /\ \A i \in 1..Len(reqs') : reqs'[i].path = VersionInfoPath
          /\ Len(reqs') = IF input.version = NoneV THEN 1 ELSE 0]_vars

\* C2: a ConnectorJSONRPCSSL ends construction in the state a
\* ConnectorJSONRPC built from the same input ends in, the TLS flag apart:
\* same host, port, timeout, version and deserialize flag, on the connector
\* and on its JSON proxy.
C2_SSLSameAsPlain ==
    [][(Constructing /\ cls' = "ConnectorJSONRPCSSL") =>
          LET plain == Construct("ConnectorJSONRPC", input, server, jars)
          IN  (status' = "ok" /\ plain.exc = "none") =>
                /\ obj'.host = plain.self.host
                /\ obj'.port = plain.self.port
                /\ obj'._timeout = plain.self._timeout
                /\ timeout(obj') = timeout(plain.self)
                /\ obj'.version = plain.self.version
                /\ obj'.deserialize = plain.self.deserialize
                /\ obj'._proxy_json.deserialize =
                      plain.self._proxy_json.deserialize]_vars

\* C3: an integer-like port is stored in its integer form; a port that
\* int() cannot coerce makes construction fail with ConnectorError before
\* any transport or proxy is built and before any request is sent.
C3_PortCoercion ==
    status # "new" =>
        IF PyInt(input.port).exc = "none"
        THEN status = "ok" => obj.port = PyInt(input.port).val
        ELSE /\ status = "failed"
             /\ exc = "ConnectorError"
             /\ openers = <<>> /\ jars = <<>> /\ built = {} /\ reqs = <<>>

\* C4: the port of a constructed connector is a non-negative integer.
C4_PortNonNegative == status = "ok" => obj.port >= 0

\* C5: the timeouts of the JSON proxy and of the HTTP proxy and the value
\* of the timeout getter all equal the value last assigned (the
\* constructor's argument before any assignment), and a call through
\* either proxy is sent with that timeout.
C5_TimeoutObserved ==
    /\ [](status = "ok" =>
            /\ obj._proxy_json._timeout = assigned
            /\ obj._proxy_http._timeout = assigned
            /\ timeout(obj) = assigned)
    /\ [][(status = "ok" /\ Len(reqs') = Len(reqs) + 1
            /\ reqs'[Len(reqs')].path # VersionInfoPath) =>
          reqs'[Len(reqs')].timeout = assigned]_vars

\* C5 witness: an SSL connector whose timeout was reassigned has sent a
\* call through each proxy afterwards.
C5_Witness ==
    /\ status = "ok" /\ cls = "ConnectorJSONRPCSSL"
    /\ assigned = 60 /\ input.timeout # 60
    /\ \E i, j \in 1..Len(reqs) :
          /\ reqs[i].via = "json" /\ reqs[i].path = AuthPath
          /\ reqs[i].timeout = 60
          /\ reqs[j].via = "http" /\ reqs[j].timeout = 60

\* C6: a connector has exactly one opener; its JSON proxy, its HTTP proxy
\* and every proxy it ever built are bound to that opener, and every
\* request carries the cookies set by the responses to all its earlier
\* requests, whichever proxy sent them.
C6_OneTransport ==
    /\ Len(openers) <= 1
    /\ status = "ok" =>
          /\ Len(openers) = 1 /\ Len(jars) = 1
          /\ obj._opener = openers[1]
          /\ obj._proxy_json.opener = obj._opener
          /\ obj._proxy_http.opener = obj._opener
          /\ \A p \in built : p.opener = obj._opener
          /\ \A i \in 1..Len(rebuilt) : rebuilt[i].opener = obj._opener
    /\ \A i \in 1..Len(reqs) :
          /\ reqs[i].opener = openers[1]
          /\ reqs[i].cookies = CookiesSet(reqs, i - 1)

\* C6 witness: the version-detection call of an SSL connector's
\* construction received a cookie and a later HTTP-proxy call sent it.
C6_Witness ==
    /\ status = "ok" /\ cls = "ConnectorJSONRPCSSL"
    /\ \E i, j \in 1..Len(reqs) :
          /\ i < j
          /\ reqs[i].via = "json" /\ reqs[i].path = VersionInfoPath
          /\ reqs[i].set = "sid1"
          /\ reqs[j].via = "http" /\ "sid1" \in reqs[j].cookies

\* C7: the TLS flag is fixed by the class, every proxy the connector builds
\* is created with it, and every request, the version-detection request of
\* construction included, uses the scheme it selects.
C7_SchemeFollowsTLSFlag ==
    status # "new" =>
        LET tls == (cls = "ConnectorJSONRPCSSL")
        IN  /\ status = "ok" =>
                /\ ssl(obj) = tls
                /\ obj._proxy_json.ssl = tls /\ obj._proxy_http.ssl = tls
            /\ \A p \in built : p.ssl = tls
            /\ \A i \in 1..Len(reqs) :
                  reqs[i].scheme = IF tls THEN "https" ELSE "http"

\* C7 witness: an SSL connector detected the version during construction
\* and has sent a later call.
C7_Witness ==
    /\ status = "ok" /\ cls = "ConnectorJSONRPCSSL"
    /\ Len(reqs) >= 2
    /\ reqs[1].path = VersionInfoPath /\ reqs[1].scheme = "https"
    /\ reqs[2].path # VersionInfoPath
    /\ Cardinality(built) >= 2

\* C8: a construction that fails fails with one of the typed error kinds.
C8_TypedFailures == status = "failed" => exc \in TypedErrors

\* C9: the connector's own _timeout field equals the timeout of the getter
\* and of both proxies.
C9_StoredTimeoutCurrent ==
    status = "ok" =>
        /\ obj._timeout = timeout(obj)
        /\ obj._timeout = obj._proxy_json._timeout
        /\ obj._timeout = obj._proxy_http._timeout

\* C10: a ConnectorJSONRPC built without a version against a server that
\* answers version-info with a well-formed result is constructed, for both
\* values of deserialize, and its version is the reply's server_version, or
\* None when the reply has none.
C10_VersionDetected ==
    (/\ status # "new" /\ cls = "ConnectorJSONRPC"
     /\ input.version = NoneV /\ PyInt(input.port).exc = "none"
     /\ server.version_info \in {"result_sv", "result_nosv"}) =>
        /\ status = "ok"
        /\ obj.version = IF server.version_info = "result_sv"
                         THEN ServerVersion ELSE NoneV

====
